---- MODULE Spec2Model ----
(***************************************************************************)
(* Model of .a5c/orchestrator_scripts/repair_json_text.py: a file-to-file  *)
(* mojibake repair.  read_text sniffs a byte-order mark and decodes, the   *)
(* REPLACEMENTS list is applied with re.sub rule after rule, and the       *)
(* result is written with Path.write_text(encoding="utf-8").               *)
(*                                                                         *)
(* Bytes are naturals 0..255, a text is a sequence of code points, a file  *)
(* is a sequence of bytes.                                                 *)
(***************************************************************************)
EXTENDS Integers, Sequences, FiniteSets, TLC

(***************************************************************************)
(* Bounds of the model.                                                    *)
(***************************************************************************)
\* an input file is a concatenation of at most MaxChunks members of Chunks
MaxChunks == 3
\* a text handed to the Repairer alone is at most MaxPieces members of Pieces
MaxPieces == 4

(***************************************************************************)
(* Sequence helpers.                                                       *)
(***************************************************************************)
\* bytes.startswith / the test "pattern occurs at position i"
startswith(s, p) == Len(s) >= Len(p) /\ SubSeq(s, 1, Len(p)) = p

MatchesAt(s, i, p) ==
    i + Len(p) - 1 <= Len(s) /\ SubSeq(s, i, i + Len(p) - 1) = p

Drop(s, n) == SubSeq(s, n + 1, Len(s))

RECURSIVE Flatten(_)
Flatten(ss) == IF ss = <<>> THEN <<>> ELSE Head(ss) \o Flatten(Tail(ss))

\* all sequences of at most n members of S
RECURSIVE SeqsUpTo(_, _)
SeqsUpTo(S, n) ==
    IF n = 0 THEN {<<>>}
    ELSE LET shorter == SeqsUpTo(S, n - 1)
         IN  shorter \cup {Append(s, x) : s \in shorter, x \in S}

(***************************************************************************)
(* The codecs read_text and write_text call.                               *)
(***************************************************************************)
\* what a strict decode that raises UnicodeDecodeError yields in place of a
\* text (no text holds a negative code point)
DecodeError == <<-1>>

IsCont(b) == b >= 128 /\ b <= 191

\* One step of the UTF-8 decoder with errors="replace" at position i of b:
\* the code point produced and the number of bytes consumed.  A malformed
\* or truncated sequence gives U+FFFD for its maximal ill-formed prefix.
Utf8Step(b, i) ==
    LET n   == Len(b) - i + 1
        ch  == b[i]
        ch2 == b[i + 1]
        ch3 == b[i + 2]
        ch4 == b[i + 3]
        Bad(k) == [cp |-> 65533, n |-> k]
    IN
    IF ch < 128 THEN [cp |-> ch, n |-> 1]
    ELSE IF ch < 194 THEN Bad(1)
    ELSE IF ch < 224 THEN
        IF n < 2 THEN Bad(n)
        ELSE IF ~IsCont(ch2) THEN Bad(1)
        ELSE [cp |-> (ch - 192) * 64 + (ch2 - 128), n |-> 2]
    ELSE IF ch < 240 THEN
        IF n < 2 THEN Bad(n)
        ELSE IF ~IsCont(ch2) \/ (ch = 224 /\ ch2 < 160) \/ (ch = 237 /\ ch2 >= 160)
             THEN Bad(1)
        ELSE IF n < 3 THEN Bad(n)
        ELSE IF ~IsCont(ch3) THEN Bad(2)
        ELSE [cp |-> (ch - 224) * 4096 + (ch2 - 128) * 64 + (ch3 - 128), n |-> 3]
    ELSE IF ch < 245 THEN
        IF n < 2 THEN Bad(n)
        ELSE IF ~IsCont(ch2) \/ (ch = 240 /\ ch2 < 144) \/ (ch = 244 /\ ch2 >= 144)
             THEN Bad(1)
        ELSE IF n < 3 THEN Bad(n)
        ELSE IF ~IsCont(ch3) THEN Bad(2)
        ELSE IF n < 4 THEN Bad(n)
        ELSE IF ~IsCont(ch4) THEN Bad(3)
        ELSE [cp |-> (ch - 240) * 262144 + (ch2 - 128) * 4096
                     + (ch3 - 128) * 64 + (ch4 - 128), n |-> 4]
    ELSE Bad(1)

RECURSIVE Utf8DecodeFrom(_, _)
Utf8DecodeFrom(b, i) ==
    IF i > Len(b) THEN <<>>
    ELSE LET st == Utf8Step(b, i)
         IN  <<st.cp>> \o Utf8DecodeFrom(b, i + st.n)

\* bytes.decode("utf-8", errors="replace")
decode_utf8_replace(b) == Utf8DecodeFrom(b, 1)

\* bytes.decode("utf-8-sig", errors="replace"): one leading EF BB BF is
\* skipped, the rest goes through the UTF-8 decoder
decode_utf8_sig_replace(b) ==
    IF startswith(b, <<239, 187, 191>>) THEN decode_utf8_replace(Drop(b, 3))
    ELSE decode_utf8_replace(b)

\* the 16-bit unit at position i, little-endian (le) or big-endian
Unit16(b, i, le) == IF le THEN b[i] + 256 * b[i + 1] ELSE 256 * b[i] + b[i + 1]

\* Strict UTF-16 decoding of b from position i on: the text, or DecodeError
\* for an odd trailing byte, an unpaired surrogate or a cut surrogate pair.
RECURSIVE Utf16DecodeFrom(_, _, _)
Utf16DecodeFrom(b, i, le) ==
    IF i > Len(b) THEN <<>>
    ELSE IF i = Len(b) THEN DecodeError
    ELSE LET u == Unit16(b, i, le) IN
         IF u < 55296 \/ u > 57343 THEN
             LET rest == Utf16DecodeFrom(b, i + 2, le)
             IN  IF rest = DecodeError THEN DecodeError ELSE <<u>> \o rest
         ELSE IF u >= 56320 THEN DecodeError
         ELSE IF i + 3 > Len(b) THEN DecodeError
         ELSE LET u2 == Unit16(b, i + 2, le) IN
              IF u2 < 56320 \/ u2 > 57343 THEN DecodeError
              ELSE LET rest == Utf16DecodeFrom(b, i + 4, le)
                   IN  IF rest = DecodeError THEN DecodeError
                       ELSE <<65536 + (u - 55296) * 1024 + (u2 - 56320)>> \o rest

\* variant of decode_utf16 with the codec "utf-16-le": no byte-order mark is
\* interpreted, every unit is read little-endian
decode_utf16_le(b) == Utf16DecodeFrom(b, 1, TRUE)

\* bytes.decode("utf-16"), errors="strict": a leading FF FE selects
\* little-endian and FE FF big-endian and is consumed; without one the
\* codec decodes in native (little-endian) order
decode_utf16(b) ==
    IF startswith(b, <<255, 254>>) THEN Utf16DecodeFrom(b, 3, TRUE)
    ELSE IF startswith(b, <<254, 255>>) THEN Utf16DecodeFrom(b, 3, FALSE)
    ELSE Utf16DecodeFrom(b, 1, TRUE)

\* read_text after path.read_bytes() has returned raw
read_text(raw) ==
    IF startswith(raw, <<255, 254>>) \/ startswith(raw, <<254, 255>>)
    THEN decode_utf16(raw)
    ELSE IF startswith(raw, <<239, 187, 191>>)
    THEN decode_utf8_sig_replace(raw)
    ELSE decode_utf8_replace(raw)

\* str.encode("utf-8") of one code point (surrogates cannot be encoded)
Utf8Encode(cp) ==
    IF cp < 128 THEN <<cp>>
    ELSE IF cp < 2048 THEN <<192 + (cp \div 64), 128 + (cp % 64)>>
    ELSE IF cp < 65536 THEN
        <<224 + (cp \div 4096), 128 + ((cp \div 64) % 64), 128 + (cp % 64)>>
    ELSE <<240 + (cp \div 262144), 128 + ((cp \div 4096) % 64),
           128 + ((cp \div 64) % 64), 128 + (cp % 64)>>

IsSurrogate(cp) == cp >= 55296 /\ cp <= 57343


\* the newline translation of a text-mode stream opened with newline=None,
\* then the UTF-8 encoder: what f.write(data) stores for the text
EncodeText(text, sep) ==
    Flatten([k \in 1..Len(text) |->
                IF text[k] = 10 THEN sep ELSE Utf8Encode(text[k])])

(***************************************************************************)
(* The Repairer: REPLACEMENTS and re.sub.                                  *)
(***************************************************************************)
\* variant of REPLACEMENTS whose rules 1 and 2 each lack their first
\* alternative
REPLACEMENTS_dropalt == <<
    [alts |-> << <<212, 199, 246>>,
                 <<226, 8364, 8220>>, <<226, 8364, 8221>> >>,
     repl |-> <<45>>],
    [alts |-> << <<226, 8364, 166>> >>,
     repl |-> <<46, 46, 46>>],
    [alts |-> << <<1575, 34, 1575, 1582, 97, 1615>> >>, repl |-> <<45>>],
    [alts |-> << <<1575, 34, 1575, 1582, 97>> >>,       repl |-> <<45>>],
    [alts |-> << <<1575, 34, 1575, 1582>> >>,           repl |-> <<45>>] >>

\* variant of REPLACEMENTS with the quote-adjacent rules shortest first
REPLACEMENTS_shortfirst == <<
    [alts |-> << <<212, 199, 244>>, <<212, 199, 246>>,
                 <<226, 8364, 8220>>, <<226, 8364, 8221>> >>,
     repl |-> <<45>>],
    [alts |-> << <<212, 199, 170>>, <<226, 8364, 166>> >>,
     repl |-> <<46, 46, 46>>],
    [alts |-> << <<1575, 34, 1575, 1582>> >>,           repl |-> <<45>>],
    [alts |-> << <<1575, 34, 1575, 1582, 97>> >>,       repl |-> <<45>>],
    [alts |-> << <<1575, 34, 1575, 1582, 97, 1615>> >>, repl |-> <<45>>] >>

\* REPLACEMENTS, each pattern as its alternatives in the order written
REPLACEMENTS == <<
    [alts |-> << <<212, 199, 244>>, <<212, 199, 246>>,
                 <<226, 8364, 8220>>, <<226, 8364, 8221>> >>,
     repl |-> <<45>>],
    [alts |-> << <<212, 199, 170>>, <<226, 8364, 166>> >>,
     repl |-> <<46, 46, 46>>],
    [alts |-> << <<1575, 34, 1575, 1582, 97, 1615>> >>, repl |-> <<45>>],
    [alts |-> << <<1575, 34, 1575, 1582, 97>> >>,       repl |-> <<45>>],
    [alts |-> << <<1575, 34, 1575, 1582>> >>,           repl |-> <<45>>] >>

\* the first alternative (in written order) that matches at position i, or 0
FirstAlt(alts, s, i) ==
    LET hits == {k \in 1..Len(alts) : MatchesAt(s, i, alts[k])}
    IN  IF hits = {} THEN 0 ELSE CHOOSE k \in hits : \A h \in hits : k <= h

\* re.sub(pattern, repl, s) from position i on: scan left to right, replace
\* each match and resume after it
RECURSIVE SubFrom(_, _, _, _)
SubFrom(alts, repl, s, i) ==
    IF i > Len(s) THEN <<>>
    ELSE LET k == FirstAlt(alts, s, i) IN
         IF k = 0 THEN <<s[i]>> \o SubFrom(alts, repl, s, i + 1)
         ELSE repl \o SubFrom(alts, repl, s, i + Len(alts[k]))

\* variant of re_sub that replaces the first match only (count=1)
RECURSIVE SubOnceFrom(_, _, _, _)
SubOnceFrom(alts, repl, s, i) ==
    IF i > Len(s) THEN <<>>
    ELSE LET k == FirstAlt(alts, s, i) IN
         IF k = 0 THEN <<s[i]>> \o SubOnceFrom(alts, repl, s, i + 1)
         ELSE repl \o Drop(s, i + Len(alts[k]) - 1)

re_sub_once(alts, repl, s) == SubOnceFrom(alts, repl, s, 1)

re_sub(alts, repl, s) == SubFrom(alts, repl, s, 1)

\* the for loop of main from rule k on
RECURSIVE RepairFrom(_, _)
RepairFrom(s, k) ==
    IF k > Len(REPLACEMENTS) THEN s
    ELSE RepairFrom(re_sub(REPLACEMENTS[k].alts, REPLACEMENTS[k].repl, s), k + 1)

repair(s) == RepairFrom(s, 1)

(***************************************************************************)
(* The state of one run of main.                                           *)
(***************************************************************************)
VARIABLES
    in_path,    \* args.in_path, None when --in is absent
    out_path,   \* args.out_path, None when --out is absent
    linesep,    \* os.linesep of the platform, as bytes
    fs,         \* the filesystem: path -> NoFile | IsDir | File(bytes)
    pc,         \* position of main: parse, read, loop, write, return, exited
    text,       \* the local variable text of main
    i,          \* index of the next rule of REPLACEMENTS the loop applies
    status,     \* exit status of the process, -1 while it runs
    exc,        \* the exception that ended the run, "none" otherwise
    fs0,        \* history: the filesystem when the run started
    decoded,    \* history: the text as read_text returned it
    ops         \* history: the filesystem operations performed, in order

vars == <<in_path, out_path, linesep, fs, pc, text, i, status, exc,
          fs0, decoded, ops>>

None   == "None"
Paths  == {"p", "q"}

\* what a path names: nothing, a directory, or a regular file with its bytes
NoFile  == [kind |-> "absent", bytes |-> <<>>]
IsDir   == [kind |-> "dir", bytes |-> <<>>]
File(b) == [kind |-> "file", bytes |-> b]

\* "\n" on POSIX, "\r\n" on Windows
Lineseps == {<<10>>, <<13, 10>>}

\* fragments input files are built from: the three byte-order marks, ASCII
\* bytes, bytes that are ill-formed on their own, and the UTF-8 bytes of the
\* mis-decoded en-dash
Chunks == {<<255, 254>>, <<254, 255>>, <<239, 187, 191>>,
           <<97>>, <<10>>, <<0>>, <<216>>, <<220>>, <<128>>,
           <<195, 148, 195, 135, 195, 180>>}

InputFiles == {Flatten(cs) : cs \in SeqsUpTo(Chunks, MaxChunks)}

\* fragments of decoded texts handed to the Repairer
Pieces == {<<212, 199>>, <<244>>, <<246>>, <<170>>,
           <<226, 8364>>, <<8220>>, <<8221>>, <<166>>,
           <<1575, 34, 1575>>, <<1582>>, <<97>>, <<1615>>}

Texts == {Flatten(ps) : ps \in SeqsUpTo(Pieces, MaxPieces)}

\* A process start: any command line, either platform, a file at p and
\* nothing, a directory or a one-byte file at q.
Init ==
    /\ in_path \in Paths \cup {None}
    /\ out_path \in Paths \cup {None}
    /\ linesep \in Lineseps
    /\ \E f \in InputFiles, g \in {NoFile, IsDir, File(<<120>>)} :
          fs = [x \in Paths |-> IF x = "p" THEN File(f) ELSE g]
    /\ fs0 = fs
    /\ pc = "parse"
    /\ text = <<>>
    /\ decoded = <<>>
    /\ i = 1
    /\ status = -1
    /\ exc = "none"
    /\ ops = <<>>

\* the process ends with status st because of e
Exit(st, e) ==
    /\ pc' = "exited"
    /\ status' = st
    /\ exc' = e

\* variant of ParseArgs in which --out is not declared required
ParseArgs_outoptional ==
    /\ pc = "parse"
    /\ IF in_path = None
       THEN Exit(2, "SystemExit")
       ELSE pc' = "read" /\ UNCHANGED <<status, exc>>
    /\ UNCHANGED <<in_path, out_path, linesep, fs, text, i, fs0, decoded, ops>>

\* parser.parse_args(): both flags are required; a missing one makes argparse
\* print the usage and exit with status 2
ParseArgs ==
    /\ pc = "parse"
    /\ IF in_path = None \/ out_path = None
       THEN Exit(2, "SystemExit")
       ELSE pc' = "read" /\ UNCHANGED <<status, exc>>
    /\ UNCHANGED <<in_path, out_path, linesep, fs, text, i, fs0, decoded, ops>>

\* variant of ReadText in a main that opens the output for writing before
\* it reads the input
ReadText_outfirst ==
    /\ pc = "read"
    /\ ops' = Append(ops, <<"read", in_path>>)
    /\ fs' = IF fs[out_path] = IsDir THEN fs
             ELSE [fs EXCEPT ![out_path] = File(<<>>)]
    /\ IF fs[in_path] = NoFile
       THEN Exit(1, "FileNotFoundError") /\ UNCHANGED <<text, decoded>>
       ELSE IF fs[in_path] = IsDir
       THEN Exit(1, "IsADirectoryError") /\ UNCHANGED <<text, decoded>>
       ELSE IF read_text(fs[in_path].bytes) = DecodeError
       THEN Exit(1, "UnicodeDecodeError") /\ UNCHANGED <<text, decoded>>
       ELSE /\ text' = read_text(fs[in_path].bytes)
            /\ decoded' = text'
            /\ pc' = "loop"
            /\ UNCHANGED <<status, exc>>
    /\ UNCHANGED <<in_path, out_path, linesep, i, fs0>>

\* text = read_text(Path(args.in_path)): read_bytes raises for a missing path
\* or a directory, the strict UTF-16 decode raises UnicodeDecodeError; an
\* uncaught exception ends the process with status 1
ReadText ==
    /\ pc = "read"
    /\ ops' = Append(ops, <<"read", in_path>>)
    /\ IF fs[in_path] = NoFile
       THEN Exit(1, "FileNotFoundError") /\ UNCHANGED <<text, decoded>>
       ELSE IF fs[in_path] = IsDir
       THEN Exit(1, "IsADirectoryError") /\ UNCHANGED <<text, decoded>>
       ELSE IF read_text(fs[in_path].bytes) = DecodeError
       THEN Exit(1, "UnicodeDecodeError") /\ UNCHANGED <<text, decoded>>
       ELSE /\ text' = read_text(fs[in_path].bytes)
            /\ decoded' = text'
            /\ pc' = "loop"
            /\ UNCHANGED <<status, exc>>
    /\ UNCHANGED <<in_path, out_path, linesep, fs, i, fs0>>

\* one iteration of "for pattern, repl in REPLACEMENTS"
ApplyRule ==
    /\ pc = "loop"
    /\ text' = re_sub(REPLACEMENTS[i].alts, REPLACEMENTS[i].repl, text)
    /\ i' = i + 1
    /\ pc' = IF i = Len(REPLACEMENTS) THEN "write" ELSE "loop"
    /\ UNCHANGED <<in_path, out_path, linesep, fs, status, exc, fs0, decoded, ops>>

\* Path(args.out_path).write_text(text, encoding="utf-8"): open(mode="w")
\* raises for a directory and otherwise creates or truncates the file; the
\* text is then written through the newline translation and the encoder
\* (which raises on a surrogate, leaving the file empty)
WriteText ==
    /\ pc = "write"
    /\ ops' = Append(ops, <<"write", out_path>>)
    /\ IF fs[out_path] = IsDir
       THEN Exit(1, "IsADirectoryError") /\ UNCHANGED fs
       ELSE IF \E k \in 1..Len(text) : IsSurrogate(text[k])
       THEN Exit(1, "UnicodeEncodeError")
            /\ fs' = [fs EXCEPT ![out_path] = File(<<>>)]
       ELSE /\ fs' = [fs EXCEPT ![out_path] = File(EncodeText(text, linesep))]
            /\ pc' = "return"
            /\ UNCHANGED <<status, exc>>
    /\ UNCHANGED <<in_path, out_path, linesep, text, i, fs0, decoded>>

\* return 0, raise SystemExit(main())
Return ==
    /\ pc = "return"
    /\ Exit(0, "none")
    /\ UNCHANGED <<in_path, out_path, linesep, fs, text, i, fs0, decoded, ops>>

Next ==
    \/ ParseArgs
    \/ ReadText
    \/ ApplyRule
    \/ WriteText
    \/ Return

Spec == Init /\ [][Next]_vars

(***************************************************************************)
(* The Repairer on its own: the run has decoded a UTF-8 file at p into a   *)
(* text of Texts and is about to enter the loop, which it then runs.       *)
(***************************************************************************)
RepairInit ==
    /\ in_path = "p"
    /\ out_path = "q"
    /\ linesep = <<10>>
    /\ \E t \in Texts :
          /\ text = t
          /\ fs = [x \in Paths |-> IF x = "p" THEN File(EncodeText(t, <<10>>)) ELSE NoFile]
    /\ fs0 = fs
    /\ decoded = text
    /\ pc = "loop"
    /\ i = 1
    /\ status = -1
    /\ exc = "none"
    /\ ops = << <<"read", "p">> >>

\* the loop alone: a behaviour ends when the last rule has been applied
RepairNext == ApplyRule

RepairSpec == RepairInit /\ [][RepairNext]_vars

(***************************************************************************)
(* Vocabulary of the properties.                                           *)
(***************************************************************************)
BOM8 == <<239, 187, 191>>
BOM16LE == <<255, 254>>
BOM16BE == <<254, 255>>

\* the bytes of the input file when the run started
raw0 == fs0[in_path].bytes

\* read_text has been called on a file that can be read
ReadDone == ops # <<>> /\ fs0[in_path].kind = "file"

\* the run has called write_text
HasWrite == \E k \in 1..Len(ops) : ops[k][1] = "write"

Succeeded == pc = "exited" /\ status = 0

\* positions of s where p occurs
Occ(s, p) == {k \in 1..Len(s) : MatchesAt(s, k, p)}

Count(s, c) == Cardinality({k \in 1..Len(s) : s[k] = c})

\* some alternative of some rule of REPLACEMENTS occurs in s
AnyRuleMatches(s) ==
    \E r \in 1..Len(REPLACEMENTS) : \E a \in 1..Len(REPLACEMENTS[r].alts) :
        Occ(s, REPLACEMENTS[r].alts[a]) # {}

\* Well-formed UTF-8 byte sequences (Unicode 15, table 3-7), from position k
RECURSIVE WellFormedFrom(_, _)
WellFormedFrom(b, k) ==
    IF k > Len(b) THEN TRUE
    ELSE LET n == Len(b) - k + 1
             In(x, lo, hi) == b[x] >= lo /\ b[x] <= hi
         IN
         \/ In(k, 0, 127) /\ WellFormedFrom(b, k + 1)
         \/ n >= 2 /\ In(k, 194, 223) /\ In(k + 1, 128, 191)
                   /\ WellFormedFrom(b, k + 2)
         \/ n >= 3 /\ In(k + 2, 128, 191)
                   /\ \/ In(k, 224, 224) /\ In(k + 1, 160, 191)
                      \/ In(k, 225, 236) /\ In(k + 1, 128, 191)
                      \/ In(k, 237, 237) /\ In(k + 1, 128, 159)
                      \/ In(k, 238, 239) /\ In(k + 1, 128, 191)
                   /\ WellFormedFrom(b, k + 3)
         \/ n >= 4 /\ In(k + 2, 128, 191) /\ In(k + 3, 128, 191)
                   /\ \/ In(k, 240, 240) /\ In(k + 1, 144, 191)
                      \/ In(k, 241, 243) /\ In(k + 1, 128, 191)
                      \/ In(k, 244, 244) /\ In(k + 1, 128, 143)
                   /\ WellFormedFrom(b, k + 4)

WellFormedUtf8(b) == WellFormedFrom(b, 1)

(***************************************************************************)
(* Properties of the Decoder and of the run as a whole, under Spec.        *)
(***************************************************************************)
\* C1: read_text never fails on the content of a readable file: whatever
\* the bytes, also after FF FE or FE FF with a remainder that is not
\* well-formed UTF-16, no decoding error reaches the caller.
C1_DecoderNeverFails ==
    ReadDone => exc # "UnicodeDecodeError"

\* C2: whenever main returns 0 the bytes of the output file are well-formed
\* UTF-8 and do not begin with the byte-order mark EF BB BF.
C2_OutputUtf8NoBom ==
    Succeeded =>
        /\ WellFormedUtf8(fs[out_path].bytes)
        /\ ~startswith(fs[out_path].bytes, BOM8)

\* C4: when --in or --out is missing the run ends at argument parsing with
\* a non-zero status and performs no filesystem operation at all.
C4_MissingFlagNoFileIO ==
    (in_path = None \/ out_path = None) =>
        /\ pc \in {"parse", "exited"}
        /\ ops = <<>>
        /\ fs = fs0
        /\ (pc = "exited" => status # 0 /\ exc = "SystemExit")

C4_Witness ==
    pc = "exited" /\ in_path # None /\ out_path = None /\ status = 2

\* C5: the input file is never mutated: for any --in and --out, also when
\* both name the same path, the bytes at the --in path after the run are
\* the bytes that were there before it.
C5_InputNeverMutated ==
    (in_path # None /\ pc = "exited") => fs[in_path] = fs0[in_path]

\* C6: for an input file without a recognized BOM, with ASCII bytes only and
\* without a match of any rule, a successful run writes an output file whose
\* bytes are identical to the input file's bytes.
C6_AsciiIdentity ==
    ( /\ Succeeded
      /\ ~startswith(raw0, BOM16LE) /\ ~startswith(raw0, BOM16BE)
      /\ ~startswith(raw0, BOM8)
      /\ \A k \in 1..Len(raw0) : raw0[k] < 128
      /\ ~AnyRuleMatches(decoded) )
    => fs[out_path].bytes = raw0

\* what read_text delivered: the text, or DecodeError when it raised
Outcome == IF exc = "UnicodeDecodeError" THEN DecodeError ELSE decoded

\* C7: the leading bytes alone choose the encoding: FF FE gives little-endian
\* and FE FF big-endian UTF-16 of the bytes after the 2-byte BOM, EF BB BF
\* gives UTF-8 with replacement of the bytes after that 3-byte prefix, and
\* every other file is UTF-8 with replacement over all its bytes.
C7_EncodingByLeadingBytes ==
    ReadDone =>
        Outcome =
            IF startswith(raw0, BOM16LE)
            THEN Utf16DecodeFrom(Drop(raw0, 2), 1, TRUE)
            ELSE IF startswith(raw0, BOM16BE)
            THEN Utf16DecodeFrom(Drop(raw0, 2), 1, FALSE)
            ELSE IF startswith(raw0, BOM8)
            THEN Utf8DecodeFrom(Drop(raw0, 3), 1)
            ELSE Utf8DecodeFrom(raw0, 1)

C7_Witness ==
    /\ pc = "loop"
    /\ startswith(raw0, BOM16BE)
    /\ decoded = <<97>>

\* C10: the output path is written only once the input has been read,
\* decoded and repaired in full: a run that has not reached the write leaves
\* the filesystem as it found it, and a run that returns 0 has stored the
\* complete repaired text at the --out path.
C10_WriteLastAndComplete ==
    /\ fs # fs0 => HasWrite
    /\ HasWrite =>
          /\ ops = << <<"read", in_path>>, <<"write", out_path>> >>
          /\ i = Len(REPLACEMENTS) + 1
          /\ text = repair(read_text(raw0))
    /\ (pc = "exited" /\ status # 0 /\ ~HasWrite) => fs = fs0
    /\ Succeeded =>
          fs[out_path] = File(EncodeText(repair(read_text(raw0)), linesep))

C10_Witness ==
    /\ Succeeded
    /\ AnyRuleMatches(decoded)
    /\ fs[out_path] # fs0[out_path]

(***************************************************************************)
(* Properties of the Repairer, under RepairSpec.                           *)
(***************************************************************************)
\* the mojibake variants, written out code point by code point
DashVariants == {<<212, 199, 244>>, <<212, 199, 246>>,
                 <<226, 8364, 8220>>, <<226, 8364, 8221>>}
EllipsisVariants == {<<212, 199, 170>>, <<226, 8364, 166>>}
QuoteShort == <<1575, 34, 1575, 1582>>
QuoteMid   == <<1575, 34, 1575, 1582, 97>>
QuoteLong  == <<1575, 34, 1575, 1582, 97, 1615>>

\* the loop over REPLACEMENTS has run to its end
LoopDone == i = Len(REPLACEMENTS) + 1

\* C3: the Repairer is idempotent: applying the five substitutions in order
\* to the repaired text gives the repaired text again, and no rule matches
\* anywhere in text produced by the replacements.
C3_RepairIdempotent ==
    LoopDone =>
        /\ repair(text) = text
        /\ ~AnyRuleMatches(text)

C3_Witness ==
    /\ pc = "write"
    /\ \E v \in DashVariants : Occ(decoded, v) # {}
    /\ Occ(decoded, QuoteShort) # {}
    /\ text # decoded

\* every variant with its replacement, a longer variant before its prefixes
Mojibake ==
    << [pat |-> QuoteLong, repl |-> <<45>>],
       [pat |-> QuoteMid, repl |-> <<45>>],
       [pat |-> QuoteShort, repl |-> <<45>>],
       [pat |-> <<212, 199, 244>>, repl |-> <<45>>],
       [pat |-> <<212, 199, 246>>, repl |-> <<45>>],
       [pat |-> <<226, 8364, 8220>>, repl |-> <<45>>],
       [pat |-> <<226, 8364, 8221>>, repl |-> <<45>>],
       [pat |-> <<212, 199, 170>>, repl |-> <<46, 46, 46>>],
       [pat |-> <<226, 8364, 166>>, repl |-> <<46, 46, 46>>] >>

\* One pass over s: at each position the longest variant that occurs there
\* is replaced, a character outside every occurrence is copied.
RECURSIVE OnePassFrom(_, _)
OnePassFrom(s, k) ==
    IF k > Len(s) THEN <<>>
    ELSE LET hits == {m \in 1..Len(Mojibake) : MatchesAt(s, k, Mojibake[m].pat)}
         IN  IF hits = {} THEN <<s[k]>> \o OnePassFrom(s, k + 1)
             ELSE LET m == CHOOSE h \in hits : \A g \in hits : h <= g
                  IN  Mojibake[m].repl \o OnePassFrom(s, k + Len(Mojibake[m].pat))

\* C8: after repair every occurrence of a dash-like variant of rule 1 in the
\* decoded text has become one '-' and every occurrence of an ellipsis-like
\* variant of rule 2 has become '...', and every character outside a match
\* of any rule is kept, unchanged and in its original order.
C8_OccurrencesReplacedRestKept ==
    LoopDone =>
        /\ text = OnePassFrom(decoded, 1)
        /\ \A v \in DashVariants \cup EllipsisVariants : Occ(text, v) = {}

C8_Witness ==
    /\ pc = "write"
    /\ \E v \in DashVariants : Occ(decoded, v) # {}
    /\ \E v \in EllipsisVariants : Occ(decoded, v) # {}
    /\ Count(text, 45) = 1 /\ Count(text, 46) = 3

\* the Repairer with the three quote-adjacent rules in the opposite order
ShortestFirst(s) ==
    LET r == REPLACEMENTS
        s1 == re_sub(r[1].alts, r[1].repl, s)
        s2 == re_sub(r[2].alts, r[2].repl, s1)
        s3 == re_sub(<<QuoteShort>>, <<45>>, s2)
        s4 == re_sub(<<QuoteMid>>, <<45>>, s3)
    IN  re_sub(<<QuoteLong>>, <<45>>, s4)

\* C9: the quote-adjacent dash rules run longest first: each occurrence of
\* any of the three variants yields exactly one '-', the trailing 'a' and
\* the trailing U+064F of the longer variants are consumed with it, and when
\* a longer variant occurs the result differs from the one the shortest
\* rule applied first would give.
C9_LongestFirst ==
    LoopDone =>
        /\ Count(text, 45) = Count(decoded, 45)
                             + Cardinality(Occ(decoded, QuoteShort))
                             + Cardinality(UNION {Occ(decoded, v) : v \in DashVariants})
        /\ Count(text, 97) = Count(decoded, 97) - Cardinality(Occ(decoded, QuoteMid))
        /\ Count(text, 1615) = Count(decoded, 1615) - Cardinality(Occ(decoded, QuoteLong))
        /\ Occ(decoded, QuoteMid) # {} => text # ShortestFirst(decoded)

C9_Witness ==
    /\ pc = "write"
    /\ decoded = QuoteLong
    /\ text = <<45>>
    /\ ShortestFirst(decoded) = <<45, 97, 1615>>

====
